---- MODULE Spec2Model ----
(***************************************************************************)
(* The Bitrise step bump-android: main() of src/main.go and of the second  *)
(* copy of the step, src/unnamed/part_000, as one state machine.  A run    *)
(* reads bump_type, finds the build.gradle file with grep, reads the two   *)
(* version fields, bumps them, exports them with envman, rewrites the file *)
(* and drives git.                                                         *)
(*                                                                         *)
(* Text is a sequence of tokens: one token per character, except that the  *)
(* two keywords versionName and versionCode and fixed literals (file       *)
(* names, git arguments) are single tokens.                                *)
(*                                                                         *)
(* A Go int is a record [hi, lo] standing for hi * 10^5 + lo: the build    *)
(* number reaches 2^31, one more than TLC's integers hold.  int is         *)
(* 64 bits wide on the amd64 and arm64 hosts the Bitrise CLI runs on, so   *)
(* no operation on the values reached here (at most 2^31) wraps.           *)
(***************************************************************************)
EXTENDS Integers, Sequences, FiniteSets, TLC

\* Number of fragments a build.gradle file of the model is made of.
MaxSegs == 2

VARIABLES program, bump_type, grepOut, disk, pc, buildGradleFiles, idx,
          versions, newVersions, bytes, g, hist

vars == <<program, bump_type, grepOut, disk, pc, buildGradleFiles, idx,
          versions, newVersions, bytes, g, hist>>

----------------------------------------------------------------------------
\* Characters

Digits == {"0", "1", "2", "3", "4", "5", "6", "7", "8", "9"}

\* \s of Go's regexp (RE2): [\t\n\f\r ]
Space == {" ", "\t", "\n", "\f", "\r"}

\* [0-9.]
NameChars == Digits \cup {"."}

DigitVal == ("0" :> 0) @@ ("1" :> 1) @@ ("2" :> 2) @@ ("3" :> 3) @@ ("4" :> 4)
            @@ ("5" :> 5) @@ ("6" :> 6) @@ ("7" :> 7) @@ ("8" :> 8) @@ ("9" :> 9)

DigitChar == <<"0", "1", "2", "3", "4", "5", "6", "7", "8", "9">>

RECURSIVE Dec(_)
\* The decimal digits of a natural number (%d).
Dec(k) == IF k < 10 THEN <<DigitChar[k + 1]>>
          ELSE Dec(k \div 10) \o <<DigitChar[(k % 10) + 1]>>

RECURSIVE DecValue(_)
\* The value of a string of decimal digits.
DecValue(ds) == IF ds = <<>> THEN 0
                ELSE 10 * DecValue(SubSeq(ds, 1, Len(ds) - 1)) + DigitVal[ds[Len(ds)]]

AllIn(s, S) == \A i \in 1..Len(s) : s[i] \in S

----------------------------------------------------------------------------
\* Go ints as [hi, lo], value hi * Base + lo

Base == 10 * 10000

Zero == [hi |-> 0, lo |-> 0]

\* math.MaxInt32 = 2147483647
OverInt32(hi, lo) == hi > 21474 \/ (hi = 21474 /\ lo > 83647)

RECURSIVE ParseAcc(_, _, _)
\* strconv.ParseInt's digit loop: n = n*10 + d, remembering a value out of range.
ParseAcc(ds, i, n) ==
    IF i > Len(ds) THEN n
    ELSE IF n.over THEN n
    ELSE LET t  == n.lo * 10 + DigitVal[ds[i]]
             hi == n.hi * 10 + (t \div Base)
             lo == t % Base
         IN  ParseAcc(ds, i + 1, [over |-> OverInt32(hi, lo), hi |-> hi, lo |-> lo])

\* strconv.ParseInt(s, 10, 32) on a string without sign: a syntax error for the
\* empty string or a non-digit, a range error above 2^31 - 1.
ParseInt32(s) ==
    IF s = <<>> \/ ~AllIn(s, Digits) THEN [err |-> TRUE, val |-> Zero]
    ELSE LET n == ParseAcc(s, 1, [over |-> FALSE, hi |-> 0, lo |-> 0])
         IN  IF n.over THEN [err |-> TRUE, val |-> Zero]
             ELSE [err |-> FALSE, val |-> [hi |-> n.hi, lo |-> n.lo]]

\* int + 1 (64 bits: no wrap below 2^63).
AddOne(n) == IF n.lo + 1 = Base THEN [hi |-> n.hi + 1, lo |-> 0]
             ELSE [hi |-> n.hi, lo |-> n.lo + 1]

PadLo(ds) == SubSeq(<<"0", "0", "0", "0">>, 1, 5 - Len(ds)) \o ds

\* strconv.Itoa of a non-negative int.
Itoa(n) == IF n.hi = 0 THEN Dec(n.lo) ELSE Dec(n.hi) \o PadLo(Dec(n.lo))

----------------------------------------------------------------------------
\* regexp

NoMatch == [end |-> 0, sub |-> <<>>]

RECURSIVE SpanEnd(_, _, _)
\* The first index from i on whose character is not in S (Len(s) + 1 if none).
SpanEnd(S, s, i) == IF i <= Len(s) /\ s[i] \in S THEN SpanEnd(S, s, i + 1) ELSE i

\* versionName\s+"([0-9.]+)" anchored at i: where the match ends, and group 1.
MatchNameAt(s, i) ==
    LET b == SpanEnd(Space, s, i + 1)
        c == SpanEnd(NameChars, s, b + 1)
    IN  IF /\ i <= Len(s) /\ s[i] = "versionName"
           /\ b > i + 1 /\ b <= Len(s) /\ s[b] = "\""
           /\ c > b + 1 /\ c <= Len(s) /\ s[c] = "\""
        THEN [end |-> c + 1, sub |-> SubSeq(s, b + 1, c - 1)]
        ELSE NoMatch

\* versionCode\s+(\d+) anchored at i.
MatchCodeAt(s, i) ==
    LET b == SpanEnd(Space, s, i + 1)
        c == SpanEnd(Digits, s, b)
    IN  IF /\ i <= Len(s) /\ s[i] = "versionCode"
           /\ b > i + 1 /\ c > b
        THEN [end |-> c, sub |-> SubSeq(s, b, c - 1)]
        ELSE NoMatch

MatchAt(re, s, i) == IF re = "versionName" THEN MatchNameAt(s, i) ELSE MatchCodeAt(s, i)

RECURSIVE FindFrom(_, _, _)
FindFrom(re, s, i) ==
    IF i > Len(s) THEN <<>>
    ELSE LET m == MatchAt(re, s, i)
         IN  IF m.end > 0 THEN <<SubSeq(s, i, m.end - 1), m.sub>>
             ELSE FindFrom(re, s, i + 1)

\* Regexp.FindStringSubmatch: the leftmost match and its group, or nil.
FindStringSubmatch(re, s) == FindFrom(re, s, 1)

RECURSIVE ReplaceFrom(_, _, _, _)
ReplaceFrom(re, s, repl, i) ==
    IF i > Len(s) THEN <<>>
    ELSE LET m == MatchAt(re, s, i)
         IN  IF m.end > 0 THEN repl \o ReplaceFrom(re, s, repl, m.end)
             ELSE <<s[i]>> \o ReplaceFrom(re, s, repl, i + 1)

\* Regexp.ReplaceAllString with a replacement that holds no $: every match,
\* left to right, becomes repl.
ReplaceAllString(re, s, repl) == ReplaceFrom(re, s, repl, 1)

----------------------------------------------------------------------------
\* github.com/coreos/go-semver

RECURSIVE IndexFrom(_, _, _)
IndexFrom(s, t, i) == IF i > Len(s) THEN 0
                      ELSE IF s[i] = t THEN i ELSE IndexFrom(s, t, i + 1)

\* strconv.ParseInt(v, 10, 64) of a version component (components here are far
\* below 2^63).
ParsePart(v) == IF v = <<>> \/ ~AllIn(v, Digits) THEN [err |-> TRUE, val |-> 0]
                ELSE [err |-> FALSE, val |-> DecValue(v)]

\* semver.NewVersion: strings.SplitN(version, ".", 3) must give three parts and
\* each must parse as an integer.
NewVersion(name) ==
    LET p1 == IndexFrom(name, ".", 1)
        p2 == IF p1 = 0 THEN 0 ELSE IndexFrom(name, ".", p1 + 1)
        bad == [err |-> TRUE, Major |-> 0, Minor |-> 0, Patch |-> 0]
    IN  IF p1 = 0 \/ p2 = 0 THEN bad
        ELSE LET a == ParsePart(SubSeq(name, 1, p1 - 1))
                 b == ParsePart(SubSeq(name, p1 + 1, p2 - 1))
                 c == ParsePart(SubSeq(name, p2 + 1, Len(name)))
             IN  IF a.err \/ b.err \/ c.err THEN bad
                 ELSE [err |-> FALSE, Major |-> a.val, Minor |-> b.val, Patch |-> c.val]

BumpMajor(v) == [v EXCEPT !.Major = v.Major + 1, !.Minor = 0, !.Patch = 0]

BumpMinor(v) == [v EXCEPT !.Minor = v.Minor + 1, !.Patch = 0]

BumpPatch(v) == [v EXCEPT !.Patch = v.Patch + 1]

\* Version.String(): "%d.%d.%d" (no pre-release, no metadata).
String(v) == Dec(v.Major) \o <<".">> \o Dec(v.Minor) \o <<".">> \o Dec(v.Patch)

\* switch configs.BumpType { case "major": ... }
Bump(bumpType, v) == CASE bumpType = "major" -> BumpMajor(v)
                       [] bumpType = "minor" -> BumpMinor(v)
                       [] bumpType = "patch" -> BumpPatch(v)
                       [] OTHER -> v

----------------------------------------------------------------------------
\* The step's functions

NoVersions == [Code |-> Zero, Name |-> <<>>]

validate(configs) == IF configs \in {"major", "minor", "patch", "none"} THEN "nil" ELSE "err"

validate_part000(configs) == IF configs \in {"major", "minor", "patch"} THEN "nil" ELSE "err"

IsNonBlank(line) == line # ""

\* find: grep's error is returned; otherwise the non-blank lines of its output.
find(out) == IF out.err THEN [err |-> TRUE, files |-> <<>>]
             ELSE [err |-> FALSE, files |-> SelectSeq(out.lines, IsNonBlank)]

\* checkFiles without the second check (more than one file goes on).
checkFiles_onlyEmpty(files) == IF Len(files) = 0 THEN "fail" ELSE "ok"

\* main's two checks on the files found: "ok" when the run goes on.
checkFiles(files) == IF Len(files) = 0 THEN "fail"
                     ELSE IF Len(files) # 1 THEN "fail" ELSE "ok"

\* getVersionsFromFile of main.go, after a successful ReadFile.
getVersionsFromFile(content) ==
    LET matchesName == FindStringSubmatch("versionName", content)
        matchesCode == FindStringSubmatch("versionCode", content)
    IN  IF Len(matchesName) # 2 THEN [err |-> TRUE, v |-> NoVersions]
        ELSE IF Len(matchesCode) # 2 THEN [err |-> TRUE, v |-> NoVersions]
        ELSE LET versionCode == ParseInt32(matchesCode[2])
             IN  IF versionCode.err THEN [err |-> TRUE, v |-> NoVersions]
                 ELSE [err |-> FALSE,
                       v |-> [Code |-> versionCode.val, Name |-> matchesName[2]]]

\* getVersionsFromFile of part_000: the two matched strings ("" , "" on an error).
getVersionsFromFile_part000(content) ==
    LET matchesName == FindStringSubmatch("versionName", content)
        matchesCode == FindStringSubmatch("versionCode", content)
    IN  IF Len(matchesName) # 2 THEN [err |-> TRUE, code |-> <<>>, name |-> <<>>]
        ELSE IF Len(matchesCode) # 2 THEN [err |-> TRUE, code |-> <<>>, name |-> <<>>]
        ELSE [err |-> FALSE, code |-> matchesCode[2], name |-> matchesName[2]]

\* bumpVersions that leaves the build number alone when nothing is bumped.
bumpVersions_noneKeepsCode(bumpType, vs) ==
    LET versionName == NewVersion(vs.Name)
    IN  IF versionName.err THEN [err |-> TRUE, v |-> NoVersions]
        ELSE [err |-> FALSE,
              v |-> [Name |-> String(Bump(bumpType, versionName)),
                     Code |-> IF bumpType \in {"major", "minor", "patch"}
                              THEN AddOne(vs.Code) ELSE vs.Code]]

bumpVersions(bumpType, vs) ==
    LET versionName == NewVersion(vs.Name)
    IN  IF versionName.err THEN [err |-> TRUE, v |-> NoVersions]
        ELSE [err |-> FALSE,
              v |-> [Name |-> String(Bump(bumpType, versionName)),
                     Code |-> AddOne(vs.Code)]]

\* part_000's inline bump: version.BumpX(), int(versionCodeInt + 1).
bump_part000(bumpType, vs) ==
    LET version == NewVersion(vs.Name)
    IN  IF version.err THEN [err |-> TRUE, v |-> NoVersions]
        ELSE [err |-> FALSE,
              v |-> [Name |-> String(Bump(bumpType, version)),
                     Code |-> AddOne(vs.Code)]]

\* The replacement texts of setVersionsToFile.
nameRepl(vs) == <<"versionName", " ", "\"">> \o vs.Name \o <<"\"">>

codeRepl(vs) == <<"versionCode", " ">> \o Itoa(vs.Code)

RECURSIVE TrimRight(_)
TrimRight(s) == IF s # <<>> /\ s[Len(s)] \in Space
                THEN TrimRight(SubSeq(s, 1, Len(s) - 1)) ELSE s

\* setBody that also trims the white space at the end of the file.
setBody_trimmed(content, vs) ==
    TrimRight(ReplaceAllString("versionCode",
                               ReplaceAllString("versionName", content, nameRepl(vs)),
                               codeRepl(vs)))

\* The body setVersionsToFile hands to WriteFile.
setBody(content, vs) ==
    ReplaceAllString("versionCode",
                     ReplaceAllString("versionName", content, nameRepl(vs)),
                     codeRepl(vs))

\* log.Fail (the repository's logger package): prints and ends the process.
Fail == "failed"

----------------------------------------------------------------------------
\* The environment: the programs, the inputs, the files

Programs == {"main.go", "part_000"}

BumpTypes == {"major", "minor", "patch", "none", "", "MAJOR"}

File1 == "./app/build.gradle"

File2 == "./lib/build.gradle"

\* The lines of grep's output (strings.Split gives one empty line for no output).
GrepOutputs == {<<"">>, <<File1>>, <<File2>>, <<File1, File2>>, <<File1, "", File2>>}

Fragments ==
    { <<"x", "\n">>,
      <<"versionName", " ", "\"", "1", ".", "2", ".", "3", "\"", "\n",
        "versionCode", " ", "7", "\n">>,
      <<"versionName", "\t", "\"", "0", ".", "0", ".", "9", "\"", "\n">>,
      <<"versionCode", " ", " ", "2", "1", "4", "7", "4", "8", "3", "6", "4", "7", "\n">>,
      <<"versionCode", "\n", "2", "1", "4", "7", "4", "8", "3", "6", "4", "8", "\n">>,
      <<"versionName", " ", "\"", "1", ".", "2", "\"">>,
      <<"versionCode", " ", "9", "9", "9", "9", "9">>,
      <<"4", "2">>,
      <<"versionName", " ", "1", ".", "0", "\n">>,
      <<"versionCode", "x">> }

RECURSIVE ContentsUpTo(_)
ContentsUpTo(n) == IF n = 0 THEN {<<>>}
                   ELSE LET S == ContentsUpTo(n - 1)
                        IN  S \cup {c \o f : c \in S, f \in Fragments}

Contents == ContentsUpTo(MaxSegs)

OtherContent == <<"versionName", " ", "\"", "1", ".", "0", ".", "0", "\"", "\n",
                  "versionCode", " ", "1", "\n">>

\* One external effect: a command run or a file read or written, its arguments
\* (each a text) and whether it succeeded.
Ev(op, args, ok) == [op |-> op, args |-> args, ok |-> ok]

----------------------------------------------------------------------------
\* main

\* The git commands of one loop iteration, in order; every argument is a text.
gitCommands(file, name) ==
    << << <<"diff">>, <<file>> >>,
       << <<"add">>, <<file>> >>,
       << <<"commit">>, <<"-m">>, <<"Bump version to ">> \o name >>,
       << <<"push">>, <<"origin">>, <<"HEAD">> >>,
       << <<"checkout">>, <<"master">> >>,
       << <<"merge">>, <<"develop">> >>,
       << <<"tag">>, <<"-a">>, name, <<"-m">>, name >>,
       << <<"push">>, <<"origin">>, <<"HEAD">>, <<"--follow-tags">> >> >>

gitCommands_part000(file, name) ==
    << << <<"diff">>, <<file>> >>,
       << <<"add">>, <<file>> >>,
       << <<"commit">>, <<"-m">>, <<"Bump version to ">> \o name >>,
       << <<"push">>, <<"origin">>, <<"HEAD">> >>,
       << <<"checkout">>, <<"master">> >>,
       << <<"merge">>, <<"develop">> >>,
       << <<"push">>, <<"origin">>, <<"HEAD">> >> >>

GitCmds == IF program = "main.go"
           THEN gitCommands(buildGradleFiles[idx], newVersions.Name)
           ELSE gitCommands_part000(buildGradleFiles[idx], newVersions.Name)

\* Whether main checks gitCommand's error.
gitErrorChecked(prog) == prog = "main.go"

\* The loop body with the file written before the variables are exported.
stepAfter_writeFirst(step) == CASE step = "getVersions" -> "bump"
                                [] step = "bump" -> "setVersions"
                                [] step = "setVersions" -> "exportCode"
                                [] step = "exportCode" -> "exportName"
                                [] step = "exportName" -> "git"

\* The order of the loop body's steps.
stepAfter(step) == CASE step = "getVersions" -> "bump"
                     [] step = "bump" -> "exportCode"
                     [] step = "exportCode" -> "exportName"
                     [] step = "exportName" -> "setVersions"
                     [] step = "setVersions" -> "git"

Init ==
    /\ program \in Programs
    /\ bump_type \in BumpTypes
    /\ grepOut \in {[err |-> TRUE, lines |-> <<"">>]}
                   \cup {[err |-> FALSE, lines |-> ls] : ls \in GrepOutputs}
    /\ disk \in {(File1 :> c) @@ (File2 :> OtherContent) : c \in Contents}
    /\ pc = "main"
    /\ buildGradleFiles = <<>>
    /\ idx = 0
    /\ versions = NoVersions
    /\ newVersions = NoVersions
    /\ bytes = <<>>
    /\ g = 0
    /\ hist = <<>>

\* configs.validate(); os.Exit(1) on an error.
Validate ==
    /\ pc = "main"
    /\ pc' = IF (IF program = "main.go" THEN validate(bump_type)
                 ELSE validate_part000(bump_type)) = "err"
             THEN "exit1" ELSE "find"
    /\ UNCHANGED <<program, bump_type, grepOut, disk, buildGradleFiles, idx,
                   versions, newVersions, bytes, g, hist>>

\* find(".", "build.gradle") and the checks on its result.
Find ==
    /\ pc = "find"
    /\ LET r == find(grepOut)
       IN  /\ hist' = Append(hist, Ev("grep", <<>>, ~r.err))
           /\ IF r.err THEN /\ pc' = Fail
                            /\ UNCHANGED <<buildGradleFiles, idx>>
              ELSE /\ buildGradleFiles' = r.files
                   /\ IF checkFiles(r.files) = "fail"
                      THEN pc' = Fail /\ UNCHANGED idx
                      ELSE pc' = "getVersions" /\ idx' = 1
    /\ UNCHANGED <<program, bump_type, grepOut, disk, versions, newVersions, bytes, g>>

\* getVersionsFromFile(buildGradleFile) (and, in part_000, strconv.ParseInt of
\* the code); ioutil.ReadFile may fail.
GetVersions ==
    /\ pc = "getVersions"
    /\ \E readOk \in BOOLEAN :
         LET file == buildGradleFiles[idx]
             r == IF program = "main.go"
                  THEN (IF readOk THEN getVersionsFromFile(disk[file])
                        ELSE [err |-> TRUE, v |-> NoVersions])
                  ELSE LET s == IF readOk THEN getVersionsFromFile_part000(disk[file])
                                ELSE [err |-> TRUE, code |-> <<>>, name |-> <<>>]
                           n == ParseInt32(s.code)
                       IN  [err |-> n.err, v |-> [Code |-> n.val, Name |-> s.name]]
         IN  /\ hist' = Append(hist, Ev("ReadFile", << <<file>> >>, readOk))
             /\ IF r.err THEN pc' = Fail /\ UNCHANGED versions
                ELSE pc' = stepAfter("getVersions") /\ versions' = r.v
    /\ UNCHANGED <<program, bump_type, grepOut, disk, buildGradleFiles, idx,
                   newVersions, bytes, g>>

\* bumpVersions(configs.BumpType, versions); in part_000 the same steps inline.
BumpStep ==
    /\ pc = "bump"
    /\ LET r == IF program = "main.go" THEN bumpVersions(bump_type, versions)
                ELSE bump_part000(bump_type, versions)
       IN  IF r.err THEN pc' = Fail /\ UNCHANGED newVersions
           ELSE pc' = stepAfter("bump") /\ newVersions' = r.v
    /\ UNCHANGED <<program, bump_type, grepOut, disk, buildGradleFiles, idx,
                   versions, bytes, g, hist>>

\* exportEnvironmentWithEnvman("BUMP_VERSION_CODE", strconv.Itoa(newVersions.Code))
ExportCode ==
    /\ pc = "exportCode"
    /\ \E ok \in BOOLEAN :
         /\ hist' = Append(hist, Ev("envman", << <<"BUMP_VERSION_CODE">>, Itoa(newVersions.Code) >>, ok))
         /\ pc' = IF ok THEN stepAfter("exportCode") ELSE Fail
    /\ UNCHANGED <<program, bump_type, grepOut, disk, buildGradleFiles, idx,
                   versions, newVersions, bytes, g>>

\* exportEnvironmentWithEnvman("BUMP_VERSION_NAME", newVersions.Name)
ExportName ==
    /\ pc = "exportName"
    /\ \E ok \in BOOLEAN :
         /\ hist' = Append(hist, Ev("envman", << <<"BUMP_VERSION_NAME">>, newVersions.Name >>, ok))
         /\ pc' = IF ok THEN stepAfter("exportName") ELSE Fail
    /\ UNCHANGED <<program, bump_type, grepOut, disk, buildGradleFiles, idx,
                   versions, newVersions, bytes, g>>

\* setVersionsToFile(buildGradleFile, newVersions): an error of ReadFile is
\* returned; the result of WriteFile is dropped and nil is returned.  A write
\* that fails leaves the file as it was.
SetVersions ==
    /\ pc = "setVersions"
    /\ LET file == buildGradleFiles[idx]
       IN  \/ /\ hist' = Append(hist, Ev("ReadFile", << <<file>> >>, FALSE))
              /\ pc' = Fail
              /\ UNCHANGED <<disk, bytes, g>>
           \/ \E writeOk \in BOOLEAN :
                LET body == setBody(disk[file], newVersions)
                IN  /\ bytes' = disk[file]
                    /\ hist' = hist \o <<Ev("ReadFile", << <<file>> >>, TRUE),
                                         Ev("WriteFile", << <<file>> >>, writeOk)>>
                    /\ disk' = IF writeOk THEN [disk EXCEPT ![file] = body] ELSE disk
                    /\ pc' = stepAfter("setVersions")
                    /\ g' = 1
    /\ UNCHANGED <<program, bump_type, grepOut, buildGradleFiles, idx,
                   versions, newVersions>>

\* One gitCommand(...) of the sequence; after the last, the next file of the
\* loop or the end of main.
Git ==
    /\ pc = "git"
    /\ \E ok \in BOOLEAN :
         /\ hist' = Append(hist, Ev("git", GitCmds[g], ok))
         /\ IF ~ok /\ gitErrorChecked(program)
            THEN pc' = Fail /\ UNCHANGED <<g, idx>>
            ELSE IF g < Len(GitCmds)
            THEN pc' = "git" /\ g' = g + 1 /\ UNCHANGED idx
            ELSE IF idx < Len(buildGradleFiles)
            THEN pc' = "getVersions" /\ g' = 0 /\ idx' = idx + 1
            ELSE pc' = "done" /\ UNCHANGED <<g, idx>>
    /\ UNCHANGED <<program, bump_type, grepOut, disk, buildGradleFiles,
                   versions, newVersions, bytes>>

Next == \/ Validate
        \/ Find
        \/ GetVersions
        \/ BumpStep
        \/ ExportCode
        \/ ExportName
        \/ SetVersions
        \/ Git

Spec == Init /\ [][Next]_vars

----------------------------------------------------------------------------
\* Properties

MaxPart == 9

ValidBumpTypes == {"major", "minor", "patch", "none"}

Int32Max == [hi |-> 21474, lo |-> 83647]

HasEvent(op) == \E i \in 1..Len(hist) : hist[i].op = op

\* setVersionsToFile has just returned nil: its WriteFile is the last effect.
JustWrote == hist # <<>> /\ hist[Len(hist)].op = "WriteFile"

WroteOk == JustWrote /\ hist[Len(hist)].ok

TheFile == buildGradleFiles[idx]

IsGit(e) == e.op = "git"

GitArgs == LET sel == SelectSeq(hist, IsGit) IN [i \in 1..Len(sel) |-> sel[i].args]

\* C1: if an external command (grep, envman, git) fails, the process aborts at
\* that point: the failed command is the last effect of the run.
C1_FailedCommandAborts ==
    \A i \in 1..Len(hist) :
        (hist[i].op \in {"grep", "envman", "git"} /\ ~hist[i].ok)
            => (i = Len(hist) /\ pc = Fail)

\* X.Y.Z as the text of a version name.
Dotted(x, y, z) == Dec(x) \o <<".">> \o Dec(y) \o <<".">> \o Dec(z)

\* b = a + 1 as integers, b written without wraparound.
IsSuccessor(a, b) == /\ (b.hi - a.hi) * Base + (b.lo - a.lo) = 1
                     /\ b.hi >= 0 /\ b.lo >= 0 /\ b.lo < Base

\* C2: once the versions are bumped, for a version name X.Y.Z the new name is
\* (X+1).0.0 for major, X.(Y+1).0 for minor, X.Y.(Z+1) for patch and X.Y.Z for
\* none, and in all four cases the new build number is the old one plus one,
\* up to and including the old build number 2^31 - 1.
C2_BumpVersions ==
    pc = "exportCode" =>
        /\ IsSuccessor(versions.Code, newVersions.Code)
        /\ \A x, y, z \in 0..MaxPart :
             versions.Name = Dotted(x, y, z) =>
                newVersions.Name =
                    CASE bump_type = "major" -> Dotted(x + 1, 0, 0)
                      [] bump_type = "minor" -> Dotted(x, y + 1, 0)
                      [] bump_type = "patch" -> Dotted(x, y, z + 1)
                      [] OTHER -> Dotted(x, y, z)

\* The build number 2^31 - 1 was read and bumped with the bump type none.
C2_Witness ==
    /\ pc = "exportCode" /\ program = "main.go" /\ bump_type = "none"
    /\ versions.Code = Int32Max
    /\ \E x, y, z \in 0..MaxPart : versions.Name = Dotted(x, y, z)

\* C3: validate accepts the bump type exactly when it is major, minor, patch
\* or none; a rejected run exits before the file search, with no effect.
C3_ValidateAcceptsExactly ==
    pc # "main" =>
        /\ (pc # "exit1") <=> (bump_type \in ValidBumpTypes)
        /\ pc = "exit1" => hist = <<>>

\* C4 as stated: the build file is written before the variables are exported,
\* and both happen before the first git command.
C4_WriteBeforeExport ==
    /\ \A j \in 1..Len(hist) :
         hist[j].op = "envman" => \E i \in 1..(j - 1) : hist[i].op = "WriteFile"
    /\ \A j \in 1..Len(hist) :
         hist[j].op = "git" => \E i \in 1..(j - 1) : hist[i].op = "envman"

\* The effects of a run, in order, up to the first git command.
OpsInOrder == <<"grep", "ReadFile", "envman", "envman", "ReadFile", "WriteFile">>

\* C4 amended: the effects happen in the order find file, read file, export
\* BUMP_VERSION_CODE, export BUMP_VERSION_NAME (both with the new versions),
\* write file (read, then write), git commands.
C4_ExportBeforeWrite ==
    /\ \A i \in 1..Len(hist) :
         hist[i].op = IF i <= Len(OpsInOrder) THEN OpsInOrder[i] ELSE "git"
    /\ Len(hist) >= 3 =>
         hist[3].args = << <<"BUMP_VERSION_CODE">>, Itoa(newVersions.Code) >>
    /\ Len(hist) >= 4 =>
         hist[4].args = << <<"BUMP_VERSION_NAME">>, newVersions.Name >>

\* A run that exported both variables, wrote the file and ran git to the end.
C4_Witness == pc = "done" /\ HasEvent("WriteFile") /\ HasEvent("envman")

\* C5: a run that reaches the end has issued the git commands diff, add,
\* commit, push origin HEAD, checkout master, merge develop, tag, push origin
\* HEAD --follow-tags, in this order, the tag named with the new version name.
C5_GitOrder ==
    pc = "done" => GitArgs = gitCommands(TheFile, newVersions.Name)

\* C6: if the file search returns zero files or more than one, the process
\* aborts before any file is read; and at most one file is ever written.
C6_ExactlyOneFile ==
    /\ (pc \notin {"main", "find", "exit1"} /\ ~grepOut.err /\ Len(find(grepOut).files) # 1)
          => (pc = Fail /\ ~HasEvent("ReadFile") /\ ~HasEvent("WriteFile"))
    /\ Cardinality({hist[i].args : i \in {j \in 1..Len(hist) : hist[j].op = "WriteFile"}}) <= 1
    /\ Cardinality({j \in 1..Len(hist) : hist[j].op = "WriteFile"}) <= 1

\* The search returned two files and the run was aborted.
C6_Witness == pc = Fail /\ ~grepOut.err /\ Len(find(grepOut).files) = 2 /\ HasEvent("grep")

RECURSIVE StripFrom(_, _, _)
StripFrom(re, s, i) ==
    IF i > Len(s) THEN <<>>
    ELSE LET m == MatchAt(re, s, i)
         IN  IF m.end > 0
             THEN (IF re = "versionName"
                   THEN SubSeq(s, i, m.end - 2 - Len(m.sub)) \o <<"\"">>
                   ELSE SubSeq(s, i, m.end - 1 - Len(m.sub)))
                  \o StripFrom(re, s, m.end)
             ELSE <<s[i]>> \o StripFrom(re, s, i + 1)

\* The text with the value of every versionName and versionCode field removed.
WithoutValues(s) == StripFrom("versionCode", StripFrom("versionName", s, 1), 1)

RECURSIVE MarkCodeFrom(_, _)
MarkCodeFrom(s, i) ==
    IF i > Len(s) THEN <<>>
    ELSE LET m == MatchCodeAt(s, i)
         IN  IF m.end > 0 THEN <<"<versionCode>">> \o MarkCodeFrom(s, m.end)
             ELSE <<s[i]>> \o MarkCodeFrom(s, i + 1)

RECURSIVE MarkNameFrom(_, _)
MarkNameFrom(s, i) ==
    IF i > Len(s) THEN <<>>
    ELSE LET m == MatchNameAt(s, i)
         IN  IF m.end > 0 THEN <<"<versionName>">> \o MarkNameFrom(s, m.end)
             ELSE <<s[i]>> \o MarkNameFrom(s, i + 1)

\* The text with every whole field (keyword, white space, value) replaced by
\* a mark: what is left is the text outside the fields.
OutsideFields(s) == MarkCodeFrom(MarkNameFrom(s, 1), 1)

\* C7 as stated: the write changes only the values of the fields.
C7_OnlyValuesChange ==
    JustWrote => WithoutValues(disk[TheFile]) = WithoutValues(bytes)

\* C7 amended: the write leaves all text outside the fields (keyword, white
\* space and value) as it was, and every field stays a field.
C7_OutsideFieldsUnchanged ==
    JustWrote => OutsideFields(disk[TheFile]) = OutsideFields(bytes)

\* A write that changed the white space inside a field.
C7_Witness ==
    /\ WroteOk
    /\ WithoutValues(disk[TheFile]) # WithoutValues(bytes)

\* The text with the first match of re replaced by repl.
ReplaceFirst(re, s, repl) ==
    LET m == FindStringSubmatch(re, s)
    IN  IF m = <<>> THEN s
        ELSE LET i == CHOOSE k \in 1..Len(s) : MatchAt(re, s, k).end > 0
                          /\ \A l \in 1..(k - 1) : MatchAt(re, s, l).end = 0
             IN  SubSeq(s, 1, i - 1) \o repl \o SubSeq(s, MatchAt(re, s, i).end, Len(s))

\* C8: the occurrences the write rewrites are the ones that were read, the
\* first match of each field.
C8_RewritesOnlyWhatWasRead ==
    WroteOk =>
        disk[TheFile] = ReplaceFirst("versionCode",
                                     ReplaceFirst("versionName", bytes, nameRepl(newVersions)),
                                     codeRepl(newVersions))

\* C9: whenever git commit was invoked, the build file holds the new version
\* name and the new build number.
C9_CommitImpliesFileBumped ==
    (\E i \in 1..Len(hist) : hist[i].op = "git" /\ hist[i].args[1] = <<"commit">>)
        => LET n == FindStringSubmatch("versionName", disk[TheFile])
               c == FindStringSubmatch("versionCode", disk[TheFile])
           IN  /\ n # <<>> /\ n[2] = newVersions.Name
               /\ c # <<>> /\ c[2] = Itoa(newVersions.Code)

\* C10: after setVersionsToFile(file, v) returned nil, for v with a build
\* number of at most 2^31 - 1, getVersionsFromFile gives exactly v.
C10_WriteThenReadRoundTrips ==
    (JustWrote /\ ~OverInt32(newVersions.Code.hi, newVersions.Code.lo))
        => getVersionsFromFile(disk[TheFile]) = [err |-> FALSE, v |-> newVersions]

====
